---- MODULE Spec2Model ----
(***************************************************************************)
(* Reminder scheduler of the "check" Telegram bot (src/app/bot.py,         *)
(* src/app/bot_service.py).  Time is counted in whole seconds since an     *)
(* epoch that is a UTC midnight.  Every thread of the process is a small   *)
(* state machine; an operation that takes time keeps its thread busy until *)
(* readyAt, and clock only advances while no thread is due.                *)
(***************************************************************************)
EXTENDS Integers, Sequences, FiniteSets, TLC

\* ------------------------------------------------------------------ bounds
MaxThreads == 2         \* reminder threads the process may create
Horizon == 75           \* seconds of run time that are explored

\* --------------------------------------------------------- program constants
ShortInterval == 60 \div 2    \* mutant: the check interval set to 30 seconds
REMINDER_CHECK_INTERVAL == 60
BACKOFF_SLEEP == 60
JOIN_TIMEOUT == 5
POLLING_RETRY_SLEEP == 5
FALLBACK_HOUR == 20
FALLBACK_MINUTE == 0

Day == 24 * 3600
HMS(h, m, s) == Day + h * 3600 + m * 60 + s     \* an instant of day 1

\* Durations (seconds) an I/O operation may take.
QueryDurations == {0, 5}
SendDurations == {5}

\* ------------------------------------------------------------------ strings
\* A stored reminder_time is a sequence of one-character strings.
S_2000 == <<"2", "0", ":", "0", "0">>
S_2130 == <<"2", "1", ":", "3", "0">>
S_2300 == <<"2", "3", ":", "0", "0">>
S_1959 == <<"1", "9", ":", "5", "9">>
S_0130 == <<"0", "1", ":", "3", "0">>
S_1500 == <<"1", "5", ":", "0", "0">>
S_2500 == <<"2", "5", ":", "0", "0">>
S_2061 == <<"2", "0", ":", "6", "1">>
S_nonsense == <<"n", "o", "n", "s", "e", "n", "s", "e">>
S_2_0_0 == <<"2", ":", "0", ":", "0">>
S_empty == <<>>

DigitChars == {"0", "1", "2", "3", "4", "5", "6", "7", "8", "9"}

DigitVal(c) ==
    CASE c = "0" -> 0 [] c = "1" -> 1 [] c = "2" -> 2 [] c = "3" -> 3
      [] c = "4" -> 4 [] c = "5" -> 5 [] c = "6" -> 6 [] c = "7" -> 7
      [] c = "8" -> 8 [] c = "9" -> 9

\* str.strip() of the blanks int() ignores around a number.
RECURSIVE Strip(_)
Strip(s) ==
    IF s = <<>> THEN s
    ELSE IF Head(s) = " " THEN Strip(Tail(s))
    ELSE IF s[Len(s)] = " " THEN Strip(SubSeq(s, 1, Len(s) - 1))
    ELSE s

IsDigits(s) == Len(s) > 0 /\ \A i \in 1..Len(s) : s[i] \in DigitChars

\* int(s) succeeds: an optional sign followed by decimal digits.
IntParses(s) ==
    LET b == Strip(s) IN
    \/ IsDigits(b)
    \/ Len(b) > 1 /\ b[1] \in {"-", "+"} /\ IsDigits(Tail(b))

RECURSIVE DigitsValue(_)
DigitsValue(s) ==
    IF s = <<>> THEN 0
    ELSE 10 * DigitsValue(SubSeq(s, 1, Len(s) - 1)) + DigitVal(s[Len(s)])

IntValue(s) ==
    LET b == Strip(s) IN
    IF b[1] = "-" THEN 0 - DigitsValue(Tail(b))
    ELSE IF b[1] = "+" THEN DigitsValue(Tail(b))
    ELSE DigitsValue(b)

\* str.split(':')
RECURSIVE Split(_)
Split(s) ==
    IF \A i \in 1..Len(s) : s[i] # ":" THEN <<s>>
    ELSE LET i == CHOOSE k \in 1..Len(s) :
                      s[k] = ":" /\ \A j \in 1..(k - 1) : s[j] # ":"
         IN <<SubSeq(s, 1, i - 1)>> \o Split(SubSeq(s, i + 1, Len(s)))

DEFAULT_BOT_REMINDER_TIME == S_2000

\* bot_service.py 253-257: (hour, minute) of the stored string; any ValueError
\* (a field that is no integer, more or fewer than two fields) gives 20:00.
ParseReminderTime(reminder_time) ==
    LET src == IF reminder_time = <<>> THEN DEFAULT_BOT_REMINDER_TIME
               ELSE reminder_time
        parts == Split(src)
    IN IF Len(parts) = 2 /\ IntParses(parts[1]) /\ IntParses(parts[2])
       THEN <<IntValue(parts[1]), IntValue(parts[2])>>
       ELSE <<FALLBACK_HOUR, FALLBACK_MINUTE>>

\* ---------------------------------------------------------------- timezones
\* The zones of the tz database the model knows, with their UTC offset in
\* minutes (none of them observes daylight saving time).
KnownZones == {"UTC", "Europe/Moscow", "Asia/Kolkata", "America/Bogota"}

UtcOffsetMinutes(zone) ==
    CASE zone = "UTC" -> 0
      [] zone = "Europe/Moscow" -> 180
      [] zone = "Asia/Kolkata" -> 330
      [] zone = "America/Bogota" -> 0 - 300

\* bot_service.py 260-263: pytz.timezone(settings.timezone or "UTC"), UTC when
\* the name is unknown.
UserTimezone(timezone) ==
    LET name == IF timezone = "" THEN "UTC" ELSE timezone
    IN IF name \in KnownZones THEN name ELSE "UTC"

\* utc_now.astimezone(user_tz): the local (hour, minute) of a UTC instant.
LocalHourMinute(instant, zone) ==
    LET local == instant + 60 * UtcOffsetMinutes(zone)
    IN <<(local \div 3600) % 24, (local \div 60) % 60>>

\* ----------------------------------------------------------------- settings
Owners == {1, 2}
OwnerOrder == <<1, 2>>          \* the order the query returns the users in
NoSettings == [absent |-> TRUE]

MkSettings(enabled, time, zone) ==
    [reminders_enabled |-> enabled, reminder_time |-> time, timezone |-> zone]

\* models.py 45-47: the column defaults of a new UserSettings row.
DefaultSettings == MkSettings(TRUE, S_2000, "UTC")

\* Mutant: get-or-create hands out a record reset to the defaults.
ResetToDefaults(row) == DefaultSettings

\* crud.get_or_create_user_settings for one stored row.
GetOrCreateUserSettings(row) == IF row = NoSettings THEN DefaultSettings ELSE row

\* Mutant: the current time is compared in UTC, not in the owner's timezone.
MatchesNowInUtc(s, utc_now_) ==
    LET target == ParseReminderTime(s.reminder_time)
        user_now == LocalHourMinute(utc_now_, "UTC")
    IN user_now[1] = target[1] /\ user_now[2] = target[2]

\* bot_service.py 269: the point-in-time match of one owner.
MatchesNow(s, utc_now_) ==
    LET target == ParseReminderTime(s.reminder_time)
        user_now == LocalHourMinute(utc_now_, UserTimezone(s.timezone))
    IN user_now[1] = target[1] /\ user_now[2] = target[2]

\* Mutant: the reminders_enabled flag is not looked at.
SkipsNobody(s) == FALSE

\* bot_service.py 248-250: the owner is skipped when reminders are disabled.
SkipsUser(s) == ~s.reminders_enabled

\* bot_service.py 243-273: the loop over the query's rows.
RECURSIVE ScanUsers(_, _, _, _)
ScanUsers(i, rows, utc_now_, users_to_notify) ==
    IF i > Len(OwnerOrder) THEN users_to_notify
    ELSE LET user == OwnerOrder[i]
             s == GetOrCreateUserSettings(rows[user])
         IN IF SkipsUser(s) THEN ScanUsers(i + 1, rows, utc_now_, users_to_notify)
            ELSE IF MatchesNow(s, utc_now_)
                 THEN ScanUsers(i + 1, rows, utc_now_, Append(users_to_notify, user))
                 ELSE ScanUsers(i + 1, rows, utc_now_, users_to_notify)

get_users_for_reminder(rows, utc_now_) == ScanUsers(1, rows, utc_now_, <<>>)

Range(seq) == {seq[i] : i \in 1..Len(seq)}

\* ---------------------------------------------------------------- scenarios
\* The stored settings and the instant the process starts at.
Scenarios ==
    { [rows |-> (1 :> NoSettings @@ 2 :> MkSettings(TRUE, S_2300, "Europe/Moscow")),
       start |-> HMS(19, 59, 55)],
      [rows |-> (1 :> MkSettings(FALSE, S_2000, "UTC")
                 @@ 2 :> MkSettings(TRUE, S_nonsense, "Mars/Phobos")),
       start |-> HMS(19, 59, 55)],
      [rows |-> (1 :> MkSettings(TRUE, S_2500, "UTC")
                 @@ 2 :> MkSettings(TRUE, S_1959, "UTC")),
       start |-> HMS(19, 58, 55)],
      [rows |-> (1 :> MkSettings(TRUE, S_0130, "Asia/Kolkata")
                 @@ 2 :> MkSettings(TRUE, S_1500, "America/Bogota")),
       start |-> HMS(19, 59, 55)],
      [rows |-> (1 :> MkSettings(TRUE, S_2130, "Europe/Moscow")
                 @@ 2 :> MkSettings(TRUE, S_2061, "")),
       start |-> HMS(18, 29, 55)],
      [rows |-> (1 :> MkSettings(TRUE, S_2_0_0, "UTC")
                 @@ 2 :> MkSettings(TRUE, S_empty, "Europe/Moscow")),
       start |-> HMS(19, 59, 55)] }

\* -------------------------------------------------------------------- state
Threads == 1..MaxThreads
NoThread == 0
Never == 0 - 1
SendOutcomes == {"delivered", "build_failed", "send_failed"}

VARIABLES
    clock,              \* the current UTC instant
    started_at,         \* the instant the process started at
    settings,           \* user_settings table: owner -> row or NoSettings
    reminders_enabled,  \* CheckBot.reminders_enabled
    stop_reminders,     \* CheckBot.stop_reminders (threading.Event)
    reminder_thread,    \* CheckBot.reminder_thread, NoThread for None
    nthreads,           \* reminder threads created so far
    main_pc,            \* the thread that runs start_polling
    main_ready,         \* end of its sleep after a polling error
    stop_pc,            \* the thread that calls stop()
    join_target,        \* the thread stop() joins
    join_deadline,      \* end of join(timeout=5)
    polling_stopped,    \* bot.stop_polling() has been called
    pc,                 \* reminder thread -> position in _reminder_scheduler
    readyAt,            \* reminder thread -> instant its current operation ends
    users_for_reminder, \* reminder thread -> the tick's delivery list
    idx,                \* reminder thread -> position in the per-owner loop
    utc_now,            \* reminder thread -> utc_now of its latest enumeration
    prev_now,           \* history: utc_now of the enumeration before that one
    snap,               \* history: the settings the latest enumeration used
    sends,              \* history: thread -> owner -> send_message calls this tick
    outcome,            \* history: thread -> owner -> how its iteration ended
    sentMinute,         \* history: owner -> minute of the tick that last delivered
    sentCount,          \* history: owner -> deliveries by ticks of that minute
    projects,           \* project table with the tasks of each project
    request,            \* the latest digest or index request
    summary,            \* what get_daily_summary returned to that request
    message,            \* the text that request produced, as a list of lines
    reads,              \* repository reads get_daily_summary issued for it
    staleness_rows,     \* per project: the last activity and the ratio computed
    asked_at            \* history: the instant the digest build of that request began at

botVars == <<reminders_enabled, stop_reminders, reminder_thread, nthreads>>
mainVars == <<main_pc, main_ready>>
stopVars == <<stop_pc, join_target, join_deadline, polling_stopped>>
tickVars == <<users_for_reminder, idx, utc_now, prev_now, snap>>
sendVars == <<sends, outcome, sentMinute, sentCount>>
digestVars == <<projects, request, summary, message, reads, staleness_rows,
                asked_at>>
vars == <<clock, started_at, settings, botVars, mainVars, stopVars, pc, readyAt,
          tickVars, sendVars, digestVars>>

NoneSent == [o \in Owners |-> 0]
NoOutcome == [o \in Owners |-> "none"]

\* No digest or index request has been made and the project table is empty.
ProjectIds == {1, 2}
NoProject == [absent |-> TRUE]
NoRequest == [op |-> "none", who |-> 0]
NoSummary == [none |-> TRUE]

DigestAtRest ==
    /\ request = NoRequest
    /\ summary = NoSummary
    /\ message = <<>>
    /\ reads = 0
    /\ staleness_rows = <<>>
    /\ asked_at = Never

\* The reminder threads and the threads of start_polling and stop() before
\* any of them has taken a step.
SchedulerAtRest ==
    /\ stop_reminders = FALSE
    /\ reminder_thread = NoThread
    /\ nthreads = 0
    /\ main_pc = "call"
    /\ main_ready = Never
    /\ stop_pc = "idle"
    /\ join_target = NoThread
    /\ join_deadline = Never
    /\ polling_stopped = FALSE
    /\ pc = [t \in Threads |-> "unborn"]
    /\ readyAt = [t \in Threads |-> Never]
    /\ users_for_reminder = [t \in Threads |-> <<>>]
    /\ idx = [t \in Threads |-> 1]
    /\ utc_now = [t \in Threads |-> Never]
    /\ prev_now = [t \in Threads |-> Never]
    /\ snap = [t \in Threads |-> [o \in Owners |-> NoSettings]]
    /\ sends = [t \in Threads |-> NoneSent]
    /\ outcome = [t \in Threads |-> NoOutcome]
    /\ sentMinute = [o \in Owners |-> Never]
    /\ sentCount = [o \in Owners |-> 0]

Init ==
    /\ \E sc \in Scenarios :
          /\ settings = sc.rows
          /\ clock = sc.start
          /\ started_at = sc.start
    /\ reminders_enabled \in BOOLEAN
    /\ SchedulerAtRest
    /\ projects = [p \in ProjectIds |-> NoProject]
    /\ DigestAtRest

\* --------------------------------------------------- the start_polling thread
Live(t) == pc[t] \notin {"unborn", "done"}

\* The instant an operation that begins now and takes d seconds ends at;
\* Never when it takes no time.
After(d) == IF d = 0 THEN Never ELSE clock + d

\* Mutant: start_polling gives the new thread a cleared stop signal.
StopSignalClearedAtStart == FALSE

\* bot.py 463-479: start_polling creates and starts the thread and leaves the
\* Event of bot.py 56 as it is; nothing in the class calls clear().
StopSignalAfterStart == stop_reminders

\* bot.py 463-481 (and 486, the call start_polling makes of itself after the
\* sleep that follows a polling error): a new reminder thread is created and
\* started whenever reminders are enabled, then polling begins.
StartPolling ==
    /\ \/ main_pc = "call"
       \/ main_pc = "error_sleep" /\ clock >= main_ready
    /\ IF reminders_enabled
       THEN /\ nthreads < MaxThreads
            /\ nthreads' = nthreads + 1
            /\ reminder_thread' = nthreads + 1
            /\ pc' = [pc EXCEPT ![nthreads + 1] = "guard"]
            /\ UNCHANGED readyAt
       ELSE UNCHANGED <<nthreads, reminder_thread, pc, readyAt>>
    /\ main_pc' = "polling"
    /\ main_ready' = Never
    /\ stop_reminders' = StopSignalAfterStart
    /\ UNCHANGED <<clock, started_at, digestVars, settings, reminders_enabled,
                   stopVars, tickVars, sendVars>>

\* bot.py 482-485: infinity_polling raises; with non_stop (the default) the
\* caller sleeps 5 seconds before it calls start_polling again.
PollingError ==
    /\ main_pc = "polling"
    /\ reminders_enabled => nthreads < MaxThreads
    /\ main_pc' = "error_sleep"
    /\ main_ready' = clock + POLLING_RETRY_SLEEP
    /\ UNCHANGED <<clock, started_at, digestVars, settings, botVars, stopVars, pc, readyAt,
                   tickVars, sendVars>>

\* bot.py 481: infinity_polling returns once stop_polling has been called.
PollingReturns ==
    /\ main_pc = "polling"
    /\ polling_stopped
    /\ main_pc' = "returned"
    /\ UNCHANGED <<clock, started_at, digestVars, settings, botVars, main_ready, stopVars, pc,
                   readyAt, tickVars, sendVars>>

\* ------------------------------------------------------------------- stop()
\* bot.py 488-494: the stop signal is set, then the thread reminder_thread
\* names (if any) is joined for at most 5 seconds.
Stop ==
    /\ stop_pc = "idle"
    /\ stop_reminders' = TRUE
    /\ IF reminder_thread # NoThread
       THEN /\ stop_pc' = "join"
            /\ join_target' = reminder_thread
            /\ join_deadline' = clock + JOIN_TIMEOUT
            /\ UNCHANGED polling_stopped
       ELSE /\ stop_pc' = "returned"
            /\ polling_stopped' = TRUE
            /\ UNCHANGED <<join_target, join_deadline>>
    /\ UNCHANGED <<clock, started_at, digestVars, settings, reminders_enabled, reminder_thread,
                   nthreads, mainVars, pc, readyAt, tickVars, sendVars>>

\* Mutant: stop() does not join the reminder thread at all.
JoinSkipped == TRUE

\* join(timeout=5) has ended, by the thread's end or by the timeout.
JoinEnded == pc[join_target] = "done" \/ clock >= join_deadline

\* bot.py 494-497: join returns, stop_polling is called and stop() returns.
JoinReturns ==
    /\ stop_pc = "join"
    /\ JoinEnded
    /\ stop_pc' = "returned"
    /\ polling_stopped' = TRUE
    /\ join_deadline' = Never
    /\ UNCHANGED <<clock, started_at, digestVars, settings, botVars, mainVars, join_target,
                   pc, readyAt, tickVars, sendVars>>

\* ------------------------------------------------ _reminder_scheduler thread
\* bot.py 461: the loop is left and the thread ends; its local variables (and
\* the history kept about its ticks) are gone.
Exit(t) ==
    /\ pc' = [pc EXCEPT ![t] = "done"]
    /\ readyAt' = [readyAt EXCEPT ![t] = Never]
    /\ users_for_reminder' = [users_for_reminder EXCEPT ![t] = <<>>]
    /\ idx' = [idx EXCEPT ![t] = 1]
    /\ utc_now' = [utc_now EXCEPT ![t] = Never]
    /\ prev_now' = [prev_now EXCEPT ![t] = Never]
    /\ snap' = [snap EXCEPT ![t] = [o \in Owners |-> NoSettings]]

\* Mutant: the loop guard does not look at the stop signal.
LoopGuardBlind(t) ==
    /\ pc[t] = "guard"
    /\ pc' = [pc EXCEPT ![t] = "tick"]
    /\ UNCHANGED <<clock, started_at, digestVars, settings, botVars, mainVars, stopVars,
                   readyAt, tickVars, sendVars>>

\* bot.py 393: while not self.stop_reminders.is_set()
LoopGuard(t) ==
    /\ pc[t] = "guard"
    /\ IF stop_reminders THEN Exit(t)
       ELSE /\ pc' = [pc EXCEPT ![t] = "tick"]
            /\ UNCHANGED <<readyAt, tickVars>>
    /\ UNCHANGED <<clock, started_at, digestVars, settings, botVars, mainVars, stopVars,
                   sendVars>>

\* bot.py 394-406: the tick begins; get_users_for_reminder issues its query
\* (bot_service.py 236-238), which takes q seconds.
BeginTick(t) ==
    /\ pc[t] = "tick"
    /\ \E q \in QueryDurations :
          readyAt' = [readyAt EXCEPT ![t] = After(q)]
    /\ pc' = [pc EXCEPT ![t] = IF reminders_enabled THEN "query" ELSE "wait_call"]
    /\ UNCHANGED <<clock, started_at, digestVars, settings, botVars, mainVars, stopVars,
                   tickVars, sendVars>>

\* The position that follows the enumeration (bot.py 408-412, 452).
AfterEnumerate(users) == IF users = <<>> THEN "wait_call" ELSE "send"

\* The seconds the loop over the rows takes: creating the settings of an
\* owner without a row commits a transaction (bot_service.py 245-246); the rest
\* of the loop works in memory.
CreateDurations == {5}
ScanDurations(rows) ==
    IF \E o \in Owners : rows[o] = NoSettings THEN CreateDurations ELSE {0}

\* bot_service.py 236-241: the query returns its rows and utc_now is read,
\* once, before the loop over the rows begins.
Enumerate(t) ==
    /\ pc[t] = "query"
    /\ clock >= readyAt[t]
    /\ snap' = [snap EXCEPT ![t] = settings]
    /\ prev_now' = [prev_now EXCEPT ![t] = utc_now[t]]
    /\ utc_now' = [utc_now EXCEPT ![t] = clock]
    /\ users_for_reminder' = [users_for_reminder EXCEPT ![t] = <<>>]
    /\ idx' = [idx EXCEPT ![t] = 1]
    /\ sends' = [sends EXCEPT ![t] = NoneSent]
    /\ outcome' = [outcome EXCEPT ![t] = NoOutcome]
    /\ pc' = [pc EXCEPT ![t] = "scan"]
    /\ \E d \in ScanDurations(settings) :
          readyAt' = [readyAt EXCEPT ![t] = After(d)]
    /\ UNCHANGED <<clock, started_at, digestVars, settings, botVars, mainVars,
                   stopVars, sentMinute, sentCount>>

\* Mutant: every owner is matched against the clock as it reads when the loop
\* gets to the owner.
ScanInstantIsClock(t) == clock

\* bot_service.py 266: utc_now.astimezone(user_tz), the reading of line 241.
ScanInstant(t) == utc_now[t]

\* Mutant: the loop reads every owner's settings again when it gets to them.
ScanRowsReread(t) == [o \in Owners |-> GetOrCreateUserSettings(settings[o])]

\* The settings the loop works with: the row the query returned, or for an
\* owner without one what get_or_create_user_settings returns.
ScanRows(t) ==
    [o \in Owners |-> IF snap[t][o] = NoSettings
                      THEN GetOrCreateUserSettings(settings[o])
                      ELSE snap[t][o]]

\* bot_service.py 243-275: the loop over the rows is over: absent settings
\* have been created with the defaults and the delivery list is built.
ScanOwners(t) ==
    /\ pc[t] = "scan"
    /\ clock >= readyAt[t]
    /\ LET users == get_users_for_reminder(ScanRows(t), ScanInstant(t))
       IN /\ users_for_reminder' = [users_for_reminder EXCEPT ![t] = users]
          /\ pc' = [pc EXCEPT ![t] = AfterEnumerate(users)]
    /\ settings' = [o \in Owners |-> IF snap[t][o] = NoSettings
                                      THEN ScanRows(t)[o] ELSE settings[o]]
    /\ snap' = [snap EXCEPT ![t] = ScanRows(t)]
    /\ readyAt' = [readyAt EXCEPT ![t] = Never]
    /\ UNCHANGED <<clock, started_at, digestVars, botVars, mainVars, stopVars,
                   idx, utc_now, prev_now, sendVars>>

\* Mutant: the failure leaves the loop and the thread ends.
FailureEndsLoop == "done"

\* The position that follows a failure of the tick outside the per-owner loop
\* (bot.py 456-459).
AfterTickFailure == "backoff"

\* bot.py 456-459: the enumeration raises (the repository is unavailable); the
\* tick is abandoned and the thread sleeps 60 seconds.
EnumerateFails(t) ==
    /\ pc[t] = "query"
    /\ clock >= readyAt[t]
    /\ pc' = [pc EXCEPT ![t] = AfterTickFailure]
    /\ readyAt' = [readyAt EXCEPT ![t] = clock + BACKOFF_SLEEP]
    /\ prev_now' = [prev_now EXCEPT ![t] = Never]
    /\ utc_now' = [utc_now EXCEPT ![t] = Never]
    /\ UNCHANGED <<clock, started_at, digestVars, settings, botVars, mainVars, stopVars,
                   users_for_reminder, idx, snap, sendVars>>

MinuteOf(instant) == instant \div 60

\* Mutant: a failure of one owner's iteration is not caught inside the loop
\* and abandons the rest of the tick.
FailureAbortsTick(t, result) ==
    IF result # "delivered" THEN "backoff"
    ELSE IF idx[t] < Len(users_for_reminder[t]) THEN "send" ELSE "wait_call"

\* The position that follows one iteration of the per-owner loop
\* (bot.py 412-449): the next owner, or the wait once the list is exhausted;
\* a failure is caught inside the iteration and changes nothing here.
AfterIteration(t, result) ==
    IF idx[t] < Len(users_for_reminder[t]) THEN "send" ELSE "wait_call"

\* bot.py 412-449: one iteration of the per-owner loop: the digest is built,
\* the message is sent, and either may fail.
SendOne(t) ==
    /\ pc[t] = "send"
    /\ clock >= readyAt[t]
    /\ idx[t] <= Len(users_for_reminder[t])
    /\ LET user == users_for_reminder[t][idx[t]]
           m == MinuteOf(utc_now[t])
       IN \E result \in SendOutcomes, d \in SendDurations :
             /\ outcome' = [outcome EXCEPT ![t][user] = result]
             /\ sends' = [sends EXCEPT ![t][user] =
                             IF result = "build_failed" THEN @ ELSE @ + 1]
             /\ sentMinute' = IF result = "delivered"
                              THEN [sentMinute EXCEPT ![user] = m]
                              ELSE sentMinute
             /\ sentCount' = IF result = "delivered"
                             THEN [sentCount EXCEPT ![user] =
                                      IF sentMinute[user] = m THEN @ + 1 ELSE 1]
                             ELSE sentCount
             /\ pc' = [pc EXCEPT ![t] = AfterIteration(t, result)]
             /\ readyAt' = [readyAt EXCEPT ![t] = After(d)]
    /\ idx' = [idx EXCEPT ![t] = @ + 1]
    /\ UNCHANGED <<clock, started_at, digestVars, settings, botVars, mainVars, stopVars,
                   users_for_reminder, utc_now, prev_now, snap>>

\* bot.py 452: self.stop_reminders.wait(timeout=REMINDER_CHECK_INTERVAL) begins.
EnterWait(t) ==
    /\ pc[t] = "wait_call"
    /\ clock >= readyAt[t]
    /\ pc' = [pc EXCEPT ![t] = "wait"]
    /\ readyAt' = [readyAt EXCEPT ![t] = clock + REMINDER_CHECK_INTERVAL]
    /\ sends' = [sends EXCEPT ![t] = NoneSent]
    /\ outcome' = [outcome EXCEPT ![t] = NoOutcome]
    /\ UNCHANGED <<clock, started_at, digestVars, settings, botVars, mainVars, stopVars,
                   tickVars, sentMinute, sentCount>>

\* bot.py 452: the wait times out with the signal unset; the loop goes on.
WaitTimeout(t) ==
    /\ pc[t] = "wait"
    /\ ~stop_reminders
    /\ clock >= readyAt[t]
    /\ pc' = [pc EXCEPT ![t] = "guard"]
    /\ readyAt' = [readyAt EXCEPT ![t] = Never]
    /\ UNCHANGED <<clock, started_at, digestVars, settings, botVars, mainVars, stopVars,
                   tickVars, sendVars>>

\* bot.py 452-454: the wait returns True, the signal is set: break.
WaitSignalled(t) ==
    /\ pc[t] = "wait"
    /\ stop_reminders
    /\ Exit(t)
    /\ UNCHANGED <<clock, started_at, digestVars, settings, botVars, mainVars, stopVars,
                   sendVars>>

\* bot.py 459: time.sleep(60) ends; the loop goes on with its guard.
BackoffDone(t) ==
    /\ pc[t] = "backoff"
    /\ clock >= readyAt[t]
    /\ pc' = [pc EXCEPT ![t] = "guard"]
    /\ readyAt' = [readyAt EXCEPT ![t] = Never]
    /\ UNCHANGED <<clock, started_at, digestVars, settings, botVars, mainVars, stopVars,
                   tickVars, sendVars>>

\* --------------------------------------------------------------------- time
\* A thread is due when it can take a step at the current instant.
Due(t) ==
    /\ Live(t)
    /\ \/ clock >= readyAt[t]
       \/ pc[t] = "wait" /\ stop_reminders

\* The instants at which an operation in progress ends.
Deadlines ==
    {readyAt[t] : t \in {u \in Threads : Live(u)}}
        \cup (IF main_pc = "error_sleep" THEN {main_ready} ELSE {})
        \cup (IF stop_pc = "join" THEN {join_deadline} ELSE {})

\* Time passes while no thread is due, up to the end of the operation that
\* ends first.
Advance ==
    /\ \A t \in Threads : ~Due(t)
    /\ main_pc # "call"
    /\ stop_pc = "join" => ~JoinEnded
    /\ Deadlines # {}
    /\ \A d \in Deadlines : d > clock
    /\ \E d \in Deadlines :
          /\ \A e \in Deadlines : d <= e
          /\ d <= started_at + Horizon
          /\ clock' = d
    /\ UNCHANGED <<started_at, digestVars, settings, botVars, mainVars, stopVars, pc, readyAt,
                   tickVars, sendVars>>

Next ==
    \/ StartPolling
    \/ PollingError
    \/ PollingReturns
    \/ Stop
    \/ JoinReturns
    \/ \E t \in Threads :
          \/ LoopGuard(t)
          \/ BeginTick(t)
          \/ Enumerate(t)
          \/ ScanOwners(t)
          \/ EnumerateFails(t)
          \/ SendOne(t)
          \/ EnterWait(t)
          \/ WaitTimeout(t)
          \/ WaitSignalled(t)
          \/ BackoffDone(t)
    \/ Advance

Spec == Init /\ [][Next]_vars

\* ============================================================ daily digest
\* ---------------------------------------------------------------- bounds
MaxCompleted == 7       \* tasks of the longest task list of a project
MaxHalfDays == 2        \* half days that pass after the first request

\* ------------------------------------------------------------- timestamps
\* A datetime is its wall-clock reading in seconds and its tzinfo: "naive"
\* for none, "utc" for datetime.timezone.utc; NoneTime is Python's None.
NoneTime == [wall |-> 0, tz |-> "none"]
Naive(w) == [wall |-> w, tz |-> "naive"]
AwareUtc(w) == [wall |-> w, tz |-> "utc"]

\* x if x.tzinfo is not None else x.replace(tzinfo=datetime.timezone.utc)
AsUtc(ts) == IF ts.tz = "naive" THEN [wall |-> ts.wall, tz |-> "utc"] ELSE ts

\* Mutant: the difference of the two calendar days.
CalendarDaysBetween(later, earlier) ==
    (later.wall \div Day) - (earlier.wall \div Day)

\* timedelta.days of (later - earlier) for two aware datetimes: whole days,
\* rounded towards minus infinity.
DaysBetween(later, earlier) == (later.wall - earlier.wall) \div Day

\* The UTC midnight the digests are first asked for, and noon of that day.
Today == 40 * Day
Noon == Today + 12 * 3600

\* ----------------------------------------------------- tasks and projects
TaskKinds ==
    { [status |-> "todo", completed_at |-> NoneTime],
      [status |-> "in_progress", completed_at |-> NoneTime],
      [status |-> "done", completed_at |-> NoneTime],
      [status |-> "done", completed_at |-> Naive(Today - 1)],
      [status |-> "done", completed_at |-> Naive(Today)],
      [status |-> "done", completed_at |-> AwareUtc(Today + 2 * 3600)],
      [status |-> "done", completed_at |-> Naive(Today - 10 * Day)] }

\* The tasks of a project in the order of project.tasks; a task's title is
\* its position in that list.
MkTasks(kinds) ==
    [i \in 1..Len(kinds) |->
        [title |-> i, status |-> kinds[i].status,
         completed_at |-> kinds[i].completed_at]]

DoneToday == [status |-> "done", completed_at |-> Naive(Today + 3600)]

ShortTaskLists ==
    {<<>>} \cup {<<a>> : a \in TaskKinds} \cup {<<a, b>> : a, b \in TaskKinds}
LongTaskLists == {[i \in 1..k |-> DoneToday] : k \in 3..MaxCompleted}
FewTaskLists == {<<>>, <<[status |-> "todo", completed_at |-> NoneTime]>>}

PeriodicityDays == {0, 7, 30}
UpdatedAts == {Naive(Today + 3600), Naive(Noon - 7 * Day), Naive(Today - 24 * Day)}
StalePeriodicityDays == {0, 7}
StaleUpdatedAts == {Naive(Noon - 7 * Day), Naive(Today - 24 * Day)}

MkProject(id, creator, period, updated, kinds) ==
    [id |-> id, creator_id |-> creator, periodicity_days |-> period,
     updated_at |-> updated, tasks |-> MkTasks(kinds)]

\* The project tables the digests are computed from.
Databases ==
    { [p \in ProjectIds |-> IF p = 1 THEN p1 ELSE p2] :
        p1 \in {MkProject(1, 1, per, upd, tl) :
                   per \in PeriodicityDays, upd \in UpdatedAts,
                   tl \in ShortTaskLists \cup LongTaskLists},
        p2 \in {NoProject} \cup
               {MkProject(2, c, per, upd, tl) :
                   c \in Owners, per \in StalePeriodicityDays,
                   upd \in StaleUpdatedAts, tl \in FewTaskLists} }

\* -------------------------------------------------------- staleness model
\* models.py 89-92: SELECT max(completed_at) over the project's tasks that
\* have one; the column holds naive UTC readings and NoneTime stands for the
\* NULL of a project without a completed task.
MaxCompletedAt(project) ==
    LET walls == {project.tasks[i].completed_at.wall :
                     i \in {j \in 1..Len(project.tasks) :
                               project.tasks[j].completed_at # NoneTime}}
    IN IF walls = {} THEN NoneTime
       ELSE Naive(CHOOSE w \in walls : \A v \in walls : v <= w)

\* models.py 86-97
get_last_activity_date(project) ==
    LET last_completed == MaxCompletedAt(project)
    IN IF last_completed # NoneTime /\ last_completed.wall > project.updated_at.wall
       THEN last_completed
       ELSE project.updated_at

\* models.py 107-108: the last activity get_staleness_ratio works with.
LastActivityUsed(project, last_activity) ==
    IF last_activity = NoneTime THEN get_last_activity_date(project)
    ELSE last_activity

\* A staleness ratio: float('inf'), or the quotient num / den of two integers
\* with den > 0.
Infinity == [inf |-> TRUE, num |-> 0, den |-> 1]
Quotient(n, d) == [inf |-> FALSE, num |-> n, den |-> d]

\* a >= b for two ratios.
RatioGeq(a, b) ==
    \/ a.inf
    \/ ~b.inf /\ a.num * b.den >= b.num * a.den

\* Mutant: a period of zero days gives the ratio of a fresh project.
ZeroPeriodIsFresh == Quotient(0, 1)

\* models.py 114-115
RatioForZeroPeriod == Infinity

\* models.py 109-112
DaysSinceActivity(project, last_activity, now) ==
    DaysBetween(now, AsUtc(LastActivityUsed(project, last_activity)))

\* models.py 99-116
get_staleness_ratio(project, last_activity, now) ==
    LET days_since_activity == DaysSinceActivity(project, last_activity, now)
        threshold == project.periodicity_days
    IN IF threshold = 0 THEN RatioForZeroPeriod
       ELSE Quotient(days_since_activity, threshold)

\* ------------------------------------------------------ digest aggregator
STALE_THRESHOLD_NUM == 4
STALE_THRESHOLD_DEN == 5

\* bot_service.py 78: staleness >= 0.8
NeedsAttention(ratio) ==
    ratio.inf \/ ratio.num * STALE_THRESHOLD_DEN >= STALE_THRESHOLD_NUM * ratio.den

\* Mutant: every task that is done counts as completed today.
IsDone(t, today_start) == t.status = "done"

\* bot_service.py 56-57
IsCompletedToday(t, today_start) ==
    /\ t.status = "done"
    /\ t.completed_at # NoneTime
    /\ AsUtc(t.completed_at).wall >= today_start

\* bot_service.py 54-58
CompletedTodayTasks(project, today_start) ==
    SelectSeq(project.tasks, LAMBDA t : IsCompletedToday(t, today_start))

\* bot_service.py 59-60
PendingTasksCount(project) ==
    Cardinality({i \in 1..Len(project.tasks) : project.tasks[i].status # "done"})

\* list.sort(key=staleness_ratio, reverse=True) is stable: an item is placed
\* after the items whose ratio is not less than its own.
InsertStale(sorted, x) ==
    LET k == Cardinality({i \in 1..Len(sorted) :
                             RatioGeq(sorted[i].staleness_ratio, x.staleness_ratio)})
    IN SubSeq(sorted, 1, k) \o <<x>> \o SubSeq(sorted, k + 1, Len(sorted))

RECURSIVE SortStale(_)
SortStale(items) ==
    IF items = <<>> THEN <<>>
    ELSE InsertStale(SortStale(SubSeq(items, 1, Len(items) - 1)), items[Len(items)])

\* The users table: the owners, each with a Telegram identifier.
TelegramId(user_id) == 100 + user_id
UnknownUser == 3
UserIds == Owners \cup {UnknownUser}

\* Mutant: the first owner stands in for an identifier without a user row.
FirstUserWhenMissing(user_id) == IF user_id \in Owners THEN user_id ELSE 1

\* bot_service.py 24: User.query.get(user_id); 0 stands for None.
UserQueryGet(user_id) == IF user_id \in Owners THEN user_id ELSE 0

\* Mutant: an owner without projects gets the error result.
NoProjectsIsError(user_id, now) == [error |-> "User not found"]

\* bot_service.py 38-46
EmptySummary(user_id, now) ==
    [user |-> user_id, total_projects |-> 0, completed_today |-> <<>>,
     projects_with_pending |-> <<>>, stale_projects |-> <<>>,
     summary_date |-> now]

\* bot_service.py 76-77: the staleness of every project of the list, with the
\* last activity it was computed from.
StalenessRows(table, order, last_activity_of, now) ==
    [i \in 1..Len(order) |->
        [project |-> order[i],
         last_activity |-> LastActivityUsed(table[order[i]], last_activity_of[order[i]]),
         staleness_ratio |->
             get_staleness_ratio(table[order[i]], last_activity_of[order[i]], now)]]

NoLastActivity == [p \in ProjectIds |-> NoneTime]

\* bot_service.py 12-94.  order is the list of the owner's projects as the
\* query of lines 34-36 returned it; today_now is the clock reading of line 29
\* and stale_now the one get_staleness_ratio takes.
get_daily_summary(table, user_id, order, today_now, stale_now) ==
    IF UserQueryGet(user_id) = 0 THEN [error |-> "User not found"]
    ELSE IF order = <<>> THEN EmptySummary(UserQueryGet(user_id), stale_now)
    ELSE
      LET today_start == (today_now \div Day) * Day
          completed == [i \in 1..Len(order) |->
                           [project |-> order[i],
                            tasks |-> CompletedTodayTasks(table[order[i]], today_start)]]
          pending == [i \in 1..Len(order) |->
                         [project |-> order[i],
                          pending_count |-> PendingTasksCount(table[order[i]])]]
          rows == StalenessRows(table, order, NoLastActivity, AwareUtc(stale_now))
          stale == [i \in 1..Len(order) |->
                       [project |-> order[i],
                        staleness_ratio |-> rows[i].staleness_ratio]]
      IN [user |-> UserQueryGet(user_id),
          total_projects |-> Len(order),
          completed_today |-> SelectSeq(completed, LAMBDA it : it.tasks # <<>>),
          projects_with_pending |->
              SelectSeq(pending, LAMBDA it : it.pending_count > 0),
          stale_projects |->
              SortStale(SelectSeq(stale,
                            LAMBDA it : NeedsAttention(it.staleness_ratio))),
          summary_date |-> stale_now]

\* Repository reads of get_daily_summary: the owner (line 24), the projects
\* with their tasks (lines 34-36) and, for every project, the aggregate query
\* of get_last_activity_date that get_staleness_ratio issues (line 77).
SummaryReads(user_id, order) ==
    IF user_id \notin Owners THEN 1
    ELSE IF order = <<>> THEN 2
    ELSE 2 + Len(order)

\* ------------------------------------------------------- digest formatter
\* A text is the list of its lines; a line is what it says (kind) and the
\* values it carries.
Line(kind, a, b) == [kind |-> kind, a |-> a, b |-> b]

RECURSIVE ConcatAll(_)
ConcatAll(seqs) ==
    IF seqs = <<>> THEN <<>> ELSE Head(seqs) \o ConcatAll(Tail(seqs))

RECURSIVE SumSeq(_)
SumSeq(ns) == IF ns = <<>> THEN 0 ELSE Head(ns) + SumSeq(Tail(ns))

MAX_LISTED_TASKS == 5
MAX_LISTED_STALE == 5
FirstN(seq, n) == SubSeq(seq, 1, IF Len(seq) < n THEN Len(seq) ELSE n)

\* Mutant: every completed task of the project is listed.
ListedTasksAll(tasks) == tasks

\* bot_service.py 121: tasks[:5]
ListedTasks(tasks) == FirstN(tasks, MAX_LISTED_TASKS)

\* bot_service.py 120-124: the lines of one project of the completed section.
CompletedItemLines(item) ==
    <<Line("completed_project", item.project, Len(item.tasks))>>
    \o [i \in 1..Len(ListedTasks(item.tasks)) |->
           Line("task", ListedTasks(item.tasks)[i].title, 0)]
    \o (IF Len(item.tasks) > MAX_LISTED_TASKS
        THEN <<Line("more", Len(item.tasks) - MAX_LISTED_TASKS, 0)>>
        ELSE <<>>)

\* bot_service.py 148-155
StalenessEmoji(ratio) ==
    IF ratio.inf \/ ratio.num >= 2 * ratio.den THEN "stale_red"
    ELSE IF 2 * ratio.num >= 3 * ratio.den THEN "stale_orange"
    ELSE IF ratio.num >= ratio.den THEN "stale_yellow"
    ELSE "stale_green"

\* bot_service.py 144-162: the line of one project of the attention section.
StaleItemLine(table, item, now) ==
    Line(StalenessEmoji(item.staleness_ratio), item.project,
         DaysBetween(AwareUtc(now),
                     AsUtc(get_last_activity_date(table[item.project]))))

TotalCompleted(summary_) ==
    SumSeq([i \in 1..Len(summary_.completed_today) |->
               Len(summary_.completed_today[i].tasks)])
TotalPending(summary_) ==
    SumSeq([i \in 1..Len(summary_.projects_with_pending) |->
               summary_.projects_with_pending[i].pending_count])

\* bot_service.py 97-175
format_summary_message(table, summary_, now) ==
    IF "error" \in DOMAIN summary_ THEN <<Line(summary_.error, 0, 0)>>
    ELSE
      <<Line("title", 0, 0)>>
      \o (IF summary_.completed_today # <<>>
          THEN <<Line("completed_header", 0, 0)>>
               \o ConcatAll([i \in 1..Len(summary_.completed_today) |->
                                CompletedItemLines(summary_.completed_today[i])])
               \o <<Line("blank", 0, 0)>>
          ELSE <<Line("nothing_completed", 0, 0)>>)
      \o (IF summary_.projects_with_pending # <<>>
          THEN <<Line("pending_header", 0, 0)>>
               \o [i \in 1..Len(summary_.projects_with_pending) |->
                      Line("pending_project",
                           summary_.projects_with_pending[i].project,
                           summary_.projects_with_pending[i].pending_count)]
               \o <<Line("blank", 0, 0)>>
          ELSE <<>>)
      \o (IF summary_.stale_projects # <<>>
          THEN <<Line("attention_header", 0, 0)>>
               \o [i \in 1..Len(FirstN(summary_.stale_projects, MAX_LISTED_STALE)) |->
                      StaleItemLine(table, summary_.stale_projects[i], now)]
               \o <<Line("blank", 0, 0)>>
          ELSE <<>>)
      \o <<Line("stats_header", 0, 0),
           Line("stats_projects", summary_.total_projects, 0),
           Line("stats_completed", TotalCompleted(summary_), 0),
           Line("stats_pending", TotalPending(summary_), 0)>>

\* Mutant: the nudge is sent whenever nothing was completed today.
NothingCompleted(summary_) == summary_.completed_today = <<>>

\* bot_service.py 198: not completed_today and not projects_with_pending and
\* not stale_projects
NothingToReport(summary_) ==
    /\ summary_.completed_today = <<>>
    /\ summary_.projects_with_pending = <<>>
    /\ summary_.stale_projects = <<>>

\* bot_service.py 178-219
get_reminder_message(summary_) ==
    IF "error" \in DOMAIN summary_ THEN <<Line("data_unavailable", 0, 0)>>
    ELSE IF NothingToReport(summary_)
    THEN <<Line("nudge", 0, 0)>>
    ELSE
      <<Line("nudge_title", 0, 0)>>
      \o (IF TotalCompleted(summary_) > 0
          THEN <<Line("completed_total", TotalCompleted(summary_), 0)>> ELSE <<>>)
      \o (IF summary_.stale_projects # <<>>
          THEN <<Line("attention_total", Len(summary_.stale_projects), 0)>>
          ELSE <<>>)
      \o (IF TotalPending(summary_) > 0
          THEN <<Line("pending_total", TotalPending(summary_), 0)>> ELSE <<>>)
      \o <<Line("open_app", 0, 0)>>

\* --------------------------------------------------------- digest requests
schedulerVars == <<started_at, settings, botVars, mainVars, stopVars, pc, readyAt,
                   tickVars, sendVars>>

\* The projects Project.query.filter_by(creator_id=user_id) selects.
OwnerProjects(table, user_id) ==
    {p \in ProjectIds : table[p] # NoProject /\ table[p].creator_id = user_id}

\* The query has no ORDER BY: the rows may come back in any order.
QueryOrders(ids) ==
    {order \in [1..Cardinality(ids) -> ids] :
        \A i, j \in 1..Cardinality(ids) : i # j => order[i] # order[j]}

\* User.query.filter_by(telegram_id=...).first(); 0 stands for None.
UserByTelegramId(telegram_id) ==
    IF \E u \in Owners : TelegramId(u) = telegram_id
    THEN CHOOSE u \in Owners : TelegramId(u) = telegram_id
    ELSE 0

DigestInit ==
    /\ clock = Noon - 1
    /\ started_at = Noon - 1
    /\ settings = [o \in Owners |-> NoSettings]
    /\ reminders_enabled = TRUE
    /\ SchedulerAtRest
    /\ projects \in Databases
    /\ DigestAtRest

HalfDay == 12 * 3600

\* The seconds that pass between the clock reading of bot_service.py 29 and
\* the later readings of one build (models.py 109, bot_service.py 93): none,
\* or one second, which is explored where it crosses noon or midnight.
BuildSeconds(now) == IF (now + 1) % HalfDay = 0 THEN {0, 1} ELSE {0}

\* bot.py 179-202: the /summary command of the Telegram user telegram_id.
HandleSummary(telegram_id) ==
    LET user_id == UserByTelegramId(telegram_id)
    IN /\ request = NoRequest
       /\ request' = [op |-> "summary", who |-> telegram_id]
       /\ IF user_id = 0
          THEN /\ message' = <<Line("not_registered", 0, 0)>>
               /\ summary' = NoSummary
               /\ reads' = 0
               /\ staleness_rows' = <<>>
               /\ clock' = clock
          ELSE \E order \in QueryOrders(OwnerProjects(projects, user_id)),
                  d \in BuildSeconds(clock) :
                  /\ summary' = get_daily_summary(projects, user_id, order,
                                                  clock, clock + d)
                  /\ message' = format_summary_message(projects, summary',
                                                       clock + d)
                  /\ reads' = SummaryReads(user_id, order)
                  /\ staleness_rows' =
                        StalenessRows(projects, order, NoLastActivity,
                                      AwareUtc(clock + d))
                  /\ clock' = clock + d
       /\ asked_at' = clock
       /\ UNCHANGED <<projects, schedulerVars>>

\* bot_service.py 178-219 (called at bot.py 419 for a reminder, and for a
\* preview of it): the reminder text of the user user_id.
ReminderMessage(user_id) ==
    /\ request = NoRequest
    /\ request' = [op |-> "reminder", who |-> user_id]
    /\ \E order \in QueryOrders(OwnerProjects(projects, user_id)),
          d \in BuildSeconds(clock) :
          /\ summary' = get_daily_summary(projects, user_id, order, clock,
                                          clock + d)
          /\ message' = get_reminder_message(summary')
          /\ reads' = SummaryReads(user_id, order)
          /\ staleness_rows' =
                IF user_id \in Owners
                THEN StalenessRows(projects, order, NoLastActivity,
                                   AwareUtc(clock + d))
                ELSE <<>>
          /\ clock' = clock + d
    /\ asked_at' = clock
    /\ UNCHANGED <<projects, schedulerVars>>

\* routes.py 119-128: the last completion of every project that has one.
LastActivityMap(table) == [p \in ProjectIds |->
    IF table[p] = NoProject THEN NoneTime ELSE MaxCompletedAt(table[p])]

\* routes.py 105-141: the projects page of the signed-in user user_id.
Index(user_id) ==
    /\ request = NoRequest
    /\ request' = [op |-> "index", who |-> user_id]
    /\ \E order \in QueryOrders(OwnerProjects(projects, user_id)) :
          staleness_rows' =
              StalenessRows(projects, order, LastActivityMap(projects),
                            AwareUtc(clock))
    /\ summary' = NoSummary
    /\ message' = <<>>
    /\ reads' = 0
    /\ asked_at' = clock
    /\ UNCHANGED <<clock, projects, schedulerVars>>

\* The request is over: its reply has been sent and its values are dropped.
Reply ==
    /\ request # NoRequest
    /\ request' = NoRequest
    /\ summary' = NoSummary
    /\ message' = <<>>
    /\ reads' = 0
    /\ staleness_rows' = <<>>
    /\ asked_at' = Never
    /\ UNCHANGED <<clock, projects, schedulerVars>>

\* Half a day passes between two requests.
TimePasses ==
    /\ request = NoRequest
    /\ clock + HalfDay <= Noon + MaxHalfDays * HalfDay
    /\ clock' = clock + HalfDay
    /\ UNCHANGED <<projects, schedulerVars, request, summary, message, reads,
                   staleness_rows, asked_at>>

DigestNext ==
    \/ \E telegram_id \in {TelegramId(u) : u \in UserIds} : HandleSummary(telegram_id)
    \/ \E user_id \in UserIds : ReminderMessage(user_id)
    \/ \E user_id \in Owners : Index(user_id)
    \/ Reply
    \/ TimePasses

DigestSpec == DigestInit /\ [][DigestNext]_vars

\* ======================================================== settings commands
\* What a user may type after "/remind time" and after "/remind tz".
S_2001 == <<"2", "0", ":", "0", "1">>
S_7_5 == <<"7", ":", "5">>
TimeArgs == {S_2001, S_7_5, S_2500, S_nonsense}
ZoneArgs == {"Europe/Moscow", "Mars/Phobos"}

\* message.text.split() without the command itself.
RemindArgs ==
    {<<>>, <<"on">>, <<"off">>, <<"time">>, <<"tz">>, <<"later">>}
        \cup {<<"time", time_str>> : time_str \in TimeArgs}
        \cup {<<"tz", timezone_str>> : timezone_str \in ZoneArgs}

\* crud.update_user_settings for one stored row: the record is created with
\* the defaults if the owner has none, and the named field is written.
UpdateUserSettings(row, field, value) ==
    [GetOrCreateUserSettings(row) EXCEPT ![field] = value]

\* Mutant: the hour and the minute are not checked against their ranges.
AcceptsTimeUnranged(time_str) ==
    LET time_parts == Split(time_str)
    IN Len(time_parts) = 2 /\ IntParses(time_parts[1]) /\ IntParses(time_parts[2])

\* bot.py 311-320: two fields separated by a colon, both integers, the hour
\* within 0..23 and the minute within 0..59.
AcceptsTime(time_str) ==
    LET time_parts == Split(time_str)
    IN /\ Len(time_parts) = 2
       /\ IntParses(time_parts[1]) /\ IntParses(time_parts[2])
       /\ ~(\/ IntValue(time_parts[1]) < 0 \/ IntValue(time_parts[1]) > 23
            \/ IntValue(time_parts[2]) < 0 \/ IntValue(time_parts[2]) > 59)

\* bot.py 352-353: pytz.timezone(timezone_str) does not raise.
AcceptsTimezone(timezone_str) == timezone_str \in KnownZones

threadVars == <<botVars, mainVars, stopVars, pc, readyAt, tickVars, sendVars>>

\* bot.py 248-387: the /remind command of the Telegram user telegram_id.
HandleRemind(telegram_id, args) ==
    LET user_id == UserByTelegramId(telegram_id)
        action == IF args = <<>> THEN "" ELSE args[1]
        Update(field, value) ==
            settings' = [settings EXCEPT
                            ![user_id] = UpdateUserSettings(@, field, value)]
    IN /\ request = NoRequest
       /\ request' = [op |-> "remind", who |-> telegram_id]
       /\ IF user_id = 0
          THEN /\ message' = <<Line("not_registered", 0, 0)>>
               /\ UNCHANGED settings
          ELSE IF args = <<>>
          THEN /\ message' = <<Line("remind_usage", 0, 0)>>
               /\ UNCHANGED settings
          ELSE IF action = "on"
          THEN /\ Update("reminders_enabled", TRUE)
               /\ message' = <<Line("reminders_on", 0, 0)>>
          ELSE IF action = "off"
          THEN /\ Update("reminders_enabled", FALSE)
               /\ message' = <<Line("reminders_off", 0, 0)>>
          ELSE IF action = "time"
          THEN IF Len(args) < 2
               THEN /\ message' = <<Line("time_missing", 0, 0)>>
                    /\ UNCHANGED settings
               ELSE IF AcceptsTime(args[2])
               THEN /\ Update("reminder_time", args[2])
                    /\ message' = <<Line("time_set", args[2], 0)>>
               ELSE /\ message' = <<Line("bad_time", 0, 0)>>
                    /\ UNCHANGED settings
          ELSE IF action = "tz"
          THEN IF Len(args) < 2
               THEN /\ message' = <<Line("tz_missing", 0, 0)>>
                    /\ UNCHANGED settings
               ELSE IF AcceptsTimezone(args[2])
               THEN /\ Update("timezone", args[2])
                    /\ message' = <<Line("tz_set", args[2], 0)>>
               ELSE /\ message' = <<Line("unknown_tz", args[2], 0)>>
                    /\ UNCHANGED settings
          ELSE /\ message' = <<Line("unknown_command", 0, 0)>>
               /\ UNCHANGED settings
       /\ UNCHANGED <<clock, started_at, threadVars, projects, summary, reads,
                      staleness_rows, asked_at>>

\* bot.py 204-246: the /settings command of the Telegram user telegram_id.
HandleSettings(telegram_id) ==
    LET user_id == UserByTelegramId(telegram_id)
    IN /\ request = NoRequest
       /\ request' = [op |-> "settings", who |-> telegram_id]
       /\ IF user_id = 0
          THEN /\ message' = <<Line("not_registered", 0, 0)>>
               /\ UNCHANGED settings
          ELSE /\ settings' = [settings EXCEPT
                                  ![user_id] = GetOrCreateUserSettings(@)]
               /\ message' = <<Line("settings_text", settings'[user_id], 0)>>
       /\ UNCHANGED <<clock, started_at, threadVars, projects, summary, reads,
                      staleness_rows, asked_at>>

\* A fresh installation: no owner has settings yet, and the bot starts five
\* seconds before 20:00 UTC.
SettingsInit ==
    /\ clock = HMS(19, 59, 55)
    /\ started_at = HMS(19, 59, 55)
    /\ settings = [o \in Owners |-> NoSettings]
    /\ reminders_enabled = TRUE
    /\ SchedulerAtRest
    /\ projects = [p \in ProjectIds |-> NoProject]
    /\ DigestAtRest

\* The command handlers alone: every user, every command.
CommandNext ==
    \/ \E telegram_id \in {TelegramId(u) : u \in UserIds}, args \in RemindArgs :
          HandleRemind(telegram_id, args)
    \/ \E telegram_id \in {TelegramId(u) : u \in UserIds} :
          HandleSettings(telegram_id)
    \/ Reply

CommandSpec == SettingsInit /\ [][CommandNext]_vars

\* The commands that change what a tick would do with the second owner:
\* reminders off and on again, a target one minute later, another timezone.
TickRemindArgs ==
    {<<"off">>, <<"on">>, <<"time", S_2001>>, <<"tz", "Europe/Moscow">>}

\* One reminder thread that nobody stops, while the second owner changes the
\* settings and either owner looks at them.
SettingsNext ==
    \/ StartPolling
    \/ \E t \in Threads :
          \/ LoopGuard(t)
          \/ BeginTick(t)
          \/ Enumerate(t)
          \/ ScanOwners(t)
          \/ SendOne(t)
          \/ EnterWait(t)
          \/ WaitTimeout(t)
    \/ Advance
    \/ \E args \in TickRemindArgs : HandleRemind(TelegramId(2), args)
    \/ \E telegram_id \in {TelegramId(u) : u \in Owners} :
          HandleSettings(telegram_id)
    \/ Reply

SettingsSpec == SettingsInit /\ [][SettingsNext]_vars

\* ============================================================== task routes
MaxTasks == 3           \* tasks a project can hold

\* A task row: its title, status, completion time and position.
MkTask(title, status, completed_at, order) ==
    [title |-> title, status |-> status, completed_at |-> completed_at,
     order |-> order]

\* The tasks the project has when the requests begin: none, one open task at
\* position 0, an open and a started task, a completed and an open task.
InitialTaskLists ==
    { <<>>,
      <<MkTask(1, "todo", NoneTime, 0)>>,
      <<MkTask(1, "todo", NoneTime, 0), MkTask(2, "in_progress", NoneTime, 1)>>,
      <<MkTask(1, "done", Naive(Today), 0), MkTask(2, "todo", NoneTime, 2)>> }

\* routes.py 282-285: SELECT max(task.order) over the tasks of the project
\* that are not done; the empty set stands for NULL.
MaxOpenOrder(tasks) ==
    LET open == {i \in 1..Len(tasks) : tasks[i].status # "done"}
    IN IF open = {} THEN {}
       ELSE {CHOOSE m \in {tasks[i].order : i \in open} :
                \A i \in open : tasks[i].order <= m}

\* routes.py 285: scalar() or -1; Python's or takes the right operand when
\* the left one is None or 0.
ScalarOr(result, default) ==
    IF result = {} \/ result = {0} THEN default
    ELSE CHOOSE m \in result : TRUE

\* routes.py 255-305: POST /api/project/<project_id>/task by the signed-in
\* user user_id; titled says whether the body has a title.
CreateTask(user_id, project_id, titled) ==
    /\ request = NoRequest
    /\ request' = [op |-> "create_task", who |-> user_id]
    /\ IF projects[project_id] = NoProject
       THEN message' = <<Line("error", 404, 0)>> /\ UNCHANGED projects
       ELSE IF projects[project_id].creator_id # user_id
       THEN message' = <<Line("error", 403, 0)>> /\ UNCHANGED projects
       ELSE IF ~titled
       THEN message' = <<Line("error", 400, 0)>> /\ UNCHANGED projects
       ELSE LET tasks == projects[project_id].tasks
                max_order == ScalarOr(MaxOpenOrder(tasks), 0 - 1)
                task == MkTask(Len(tasks) + 1, "todo", NoneTime, max_order + 1)
            IN /\ Len(tasks) < MaxTasks
               /\ projects' = [projects EXCEPT
                                  ![project_id].tasks = Append(tasks, task)]
               /\ message' = <<Line("task_created", project_id, task.title)>>
    /\ UNCHANGED <<clock, schedulerVars, summary, reads, staleness_rows, asked_at>>

\* Mutant: a task that is marked as not done keeps its completion time.
UndoneKeepsTime(task) == [task EXCEPT !.status = "todo"]

\* routes.py 380-382
Undone(task) == [task EXCEPT !.status = "todo", !.completed_at = NoneTime]

\* routes.py 383-386
Done(task, now) ==
    [task EXCEPT !.status = "done", !.completed_at = AwareUtc(now)]

\* routes.py 355-414: PATCH .../task/<task_id>/status by the signed-in user
\* user_id; a task is named by its position in its project, and commits says
\* whether db.session.commit() succeeds (it is rolled back when it does not).
ToggleTaskStatus(user_id, project_id, task_id, commits) ==
    /\ request = NoRequest
    /\ request' = [op |-> "toggle_task_status", who |-> user_id]
    /\ IF projects[project_id] = NoProject
       THEN message' = <<Line("error", 404, 0)>> /\ UNCHANGED projects
       ELSE IF projects[project_id].creator_id # user_id
       THEN message' = <<Line("error", 403, 0)>> /\ UNCHANGED projects
       ELSE IF task_id > Len(projects[project_id].tasks)
       THEN message' = <<Line("error", 404, 0)>> /\ UNCHANGED projects
       ELSE IF ~commits
       THEN message' = <<Line("error", 500, 0)>> /\ UNCHANGED projects
       ELSE LET task == projects[project_id].tasks[task_id]
            IN /\ projects' = [projects EXCEPT ![project_id].tasks[task_id] =
                                  IF task.status = "done" THEN Undone(task)
                                  ELSE Done(task, clock)]
               /\ message' = <<Line("task_toggled", project_id, task_id)>>
    /\ UNCHANGED <<clock, schedulerVars, summary, reads, staleness_rows, asked_at>>

\* The first owner has one project, the second none.
TaskInit ==
    /\ clock = Noon
    /\ started_at = Noon
    /\ settings = [o \in Owners |-> NoSettings]
    /\ reminders_enabled = TRUE
    /\ SchedulerAtRest
    /\ \E tasks \in InitialTaskLists :
          projects = (1 :> [id |-> 1, creator_id |-> 1, periodicity_days |-> 7,
                            updated_at |-> Naive(Today), tasks |-> tasks]
                      @@ 2 :> NoProject)
    /\ DigestAtRest

TaskNext ==
    \/ \E user_id \in Owners, project_id \in ProjectIds, titled \in BOOLEAN :
          CreateTask(user_id, project_id, titled)
    \/ \E user_id \in Owners, project_id \in ProjectIds, task_id \in 1..MaxTasks,
          commits \in BOOLEAN :
          ToggleTaskStatus(user_id, project_id, task_id, commits)
    \/ Reply
    \/ TimePasses

TaskSpec == TaskInit /\ [][TaskNext]_vars

\* ===================================================================== claims
\* The thread has completed an enumeration whose result it still holds.
Enumerated(t) == utc_now[t] # Never /\ pc[t] # "scan"

InDeliverySet(t, o) == o \in Range(users_for_reminder[t])

\* The per-owner loop of the thread's tick is over and its record still kept.
LoopOver(t) == pc[t] # "send" /\ outcome[t] # NoOutcome

\* C1: in any tick an owner with reminders enabled is in the delivery set if
\* and only if the tick's instant, converted to the owner's timezone, has the
\* (hour, minute) of the owner's parsed target; when the instant one minute
\* earlier or later has it, the owner is not in the set.
C1_FiresOnExactLocalMinute ==
    \A t \in Threads : \A o \in Owners :
        (Enumerated(t) /\ snap[t][o].reminders_enabled) =>
            LET target == ParseReminderTime(snap[t][o].reminder_time)
                zone == UserTimezone(snap[t][o].timezone)
            IN /\ InDeliverySet(t, o) <=>
                      LocalHourMinute(utc_now[t], zone) = target
               /\ (\/ LocalHourMinute(utc_now[t] - 60, zone) = target
                   \/ LocalHourMinute(utc_now[t] + 60, zone) = target)
                      => ~InDeliverySet(t, o)

\* An owner in Europe/Moscow with reminder_time 21:30 is in a delivery set.
C1_Witness ==
    \E t \in Threads :
        /\ Enumerated(t)
        /\ snap[t][1] = MkSettings(TRUE, S_2130, "Europe/Moscow")
        /\ LocalHourMinute(utc_now[t], "Europe/Moscow") = <<21, 30>>
        /\ InDeliverySet(t, 1)

\* C2: for every owner and every occurrence of the owner's target minute, at
\* most one reminder is delivered to the owner by ticks that fall in that
\* minute, over any sequence of ticks.
C2_AtMostOncePerMinuteWindow == \A o \in Owners : sentCount[o] <= 1

CleanTick(t) == \A o \in Owners : outcome[t][o] \in {"none", "delivered"}

C4_DisabledOwnerNeverNotified ==
    \A t \in Threads : \A o \in Owners :
        (Enumerated(t) /\ ~snap[t][o].reminders_enabled) =>
            /\ ~InDeliverySet(t, o)
            /\ sends[t][o] = 0
            /\ outcome[t][o] = "none"

\* A tick falls in the very minute a disabled owner's settings name.
C4_Witness ==
    \E t \in Threads : \E o \in Owners :
        /\ Enumerated(t)
        /\ ~snap[t][o].reminders_enabled
        /\ MatchesNow(snap[t][o], utc_now[t])
        /\ pc[t] = "wait_call"

\* A stored reminder_time is HH:MM with hour 0-23 and minute 0-59.
ValidHHMM(time) ==
    LET parts == Split(time)
    IN /\ Len(parts) = 2
       /\ IntParses(parts[1]) /\ IntParses(parts[2])
       /\ IntValue(parts[1]) \in 0..23
       /\ IntValue(parts[2]) \in 0..59

\* C5: an owner with reminders enabled whose stored reminder_time is not a
\* valid HH:MM time is matched as if it were 20:00, an unknown timezone name
\* counts as UTC, and the owner is in the delivery set of the tick whose local
\* time equals the resulting target.
C5_MalformedSettingsDegrade ==
    \A t \in Threads : \A o \in Owners :
        (Enumerated(t) /\ snap[t][o].reminders_enabled) =>
            LET time == snap[t][o].reminder_time
                target == IF ValidHHMM(time)
                          THEN <<IntValue(Split(time)[1]), IntValue(Split(time)[2])>>
                          ELSE <<20, 0>>
                zone == IF snap[t][o].timezone \in KnownZones
                        THEN snap[t][o].timezone ELSE "UTC"
            IN InDeliverySet(t, o) <=> LocalHourMinute(utc_now[t], zone) = target

\* C6: a failure while building for, or sending to, one owner does not abort
\* the tick: once the per-owner loop is over every owner of the delivery set
\* has had its iteration, with exactly one send unless its own build failed,
\* and no other owner has had a send.
C6_OwnerFailureIsolated ==
    \A t \in Threads :
        LoopOver(t) =>
            \A o \in Owners :
                IF InDeliverySet(t, o)
                THEN /\ outcome[t][o] # "none"
                     /\ sends[t][o] = IF outcome[t][o] = "build_failed" THEN 0 ELSE 1
                ELSE sends[t][o] = 0 /\ outcome[t][o] = "none"

\* The first owner of a tick failed and the second was still sent to.
C6_Witness ==
    \E t \in Threads :
        /\ pc[t] = "wait_call"
        /\ users_for_reminder[t] = <<1, 2>>
        /\ outcome[t][1] \in {"build_failed", "send_failed"}
        /\ outcome[t][2] = "delivered"
        /\ sends[t][2] = 1

\* C7: no failure ends the scheduler loop: a failed tick is followed by the
\* 60-second sleep, the sleep by the loop guard, the guard (stop not
\* requested) by a new tick, and the thread ends only once stop was requested.
C7_LoopSurvivesFailure ==
    [][\A t \in Threads :
          /\ pc'[t] = "done" => stop_reminders
          /\ (pc[t] = "query" /\ pc'[t] # "query" /\ utc_now'[t] = Never)
                => (pc'[t] = "backoff" /\ readyAt'[t] = clock + 60)
          /\ (pc[t] = "backoff" /\ pc'[t] # "backoff") => pc'[t] = "guard"
          /\ (pc[t] = "guard" /\ pc'[t] # "guard" /\ ~stop_reminders)
                => pc'[t] = "tick"]_vars

\* The first thread begins a tick again after its first tick failed.
C7_Witness ==
    /\ pc[1] = "tick"
    /\ ~Enumerated(1)
    /\ clock >= started_at + 60
    /\ ~stop_reminders

\* C8 (as claimed): no tick begins once stop has been requested.
C8_NoTickBeginsAfterStop ==
    [][\A t \in Threads :
          (pc[t] = "tick" /\ pc'[t] \in {"query", "wait_call"}) => ~stop_reminders]_vars

\* C8 (amended): once stop has been requested no loop guard lets a tick
\* through and a wait ends the thread; the only tick that can still begin is
\* one whose guard was evaluated before the request, and a tick in flight runs
\* on to its end.
C8_NoGuardPassesAfterStop ==
    [][\A t \in Threads :
          stop_reminders =>
              /\ pc'[t] = "tick" => pc[t] = "tick"
              /\ (pc[t] = "wait" /\ pc'[t] # "wait") => pc'[t] = "done"
              /\ (pc[t] = "send" /\ pc'[t] # "send") => pc'[t] = "wait_call"]_vars

\* Stop has been requested and a tick in flight goes on with its second owner.
C8_Witness ==
    \E t \in Threads :
        /\ stop_reminders
        /\ pc[t] = "send"
        /\ idx[t] = 2

\* The thread is executing a tick: past the loop guard, not yet in the wait.
ExecutingTick(t) == pc[t] \in {"tick", "query", "send", "wait_call"}

\* C9 (as claimed): once stop() has returned no reminder thread is executing
\* a tick, so no reminder is sent after the return.
C9_StoppedMeansLoopExited ==
    stop_pc = "returned" => \A t \in Threads : ~ExecutingTick(t)

\* C9 (amended): stop() returns when the reminder thread it joined has ended
\* or 5 seconds after the join began, whichever comes first; in the second
\* case the thread may still be running and may send after stop() returned.
C9_StopReturnsAfterJoinOrTimeout ==
    [][(stop_pc = "join" /\ stop_pc' = "returned") =>
          \/ pc[join_target] = "done"
          \/ clock >= join_deadline /\ join_deadline # Never]_vars

\* stop() has returned by the timeout while the joined thread is still running.
C9_Witness ==
    /\ stop_pc = "returned"
    /\ join_target # NoThread
    /\ pc[join_target] = "send"

\* C10: at any time at most one reminder thread is running.
C10_AtMostOneReminderThread ==
    Cardinality({t \in Threads : Live(t)}) <= 1

\* A tick of the thread is executing: it has begun and its per-owner loop has
\* not finished yet.
TickInProgress(t) == pc[t] \in {"tick", "query", "send"}

\* C11: ticks never overlap: in every reachable state at most one tick is
\* executing, so a tick never begins before the per-owner loop of another
\* tick has finished or been interrupted.
C11_TicksNeverOverlap ==
    Cardinality({t \in Threads : TickInProgress(t)}) <= 1

\* The latest request named an identity that has no user row.
UnknownIdentity ==
    \/ request.op = "reminder" /\ request.who \notin Owners
    \/ request.op = "summary" /\ UserByTelegramId(request.who) = 0

\* Lines that only a digest of some owner's projects contains.
DigestLineKinds ==
    {"title", "completed_header", "completed_project", "task", "more",
     "nothing_completed", "pending_header", "pending_project",
     "attention_header", "stale_red", "stale_orange", "stale_yellow",
     "stale_green", "stats_header", "stats_projects", "stats_completed",
     "stats_pending", "nudge", "nudge_title", "completed_total",
     "attention_total", "pending_total", "open_app"}

RequestOwner ==
    IF request.op = "summary" THEN UserByTelegramId(request.who)
    ELSE IF request.op = "reminder" /\ request.who \in Owners THEN request.who
    ELSE 0

\* C13: for an existing owner with zero projects get_daily_summary returns a
\* digest with total_projects = 0 and empty completed, pending and attention
\* sections, never the error result.
C13_NoProjectsGivesEmptyDigest ==
    (RequestOwner # 0 /\ OwnerProjects(projects, RequestOwner) = {}) =>
        /\ "error" \notin DOMAIN summary
        /\ summary.user = RequestOwner
        /\ summary.total_projects = 0
        /\ summary.completed_today = <<>>
        /\ summary.projects_with_pending = <<>>
        /\ summary.stale_projects = <<>>

\* The digest of an owner without projects was built while the other owner
\* has one.
C13_Witness ==
    /\ RequestOwner = 2
    /\ OwnerProjects(projects, 2) = {}
    /\ OwnerProjects(projects, 1) # {}
    /\ summary.total_projects = 0

\* The positions of the items of a section that name the project p.
ItemsOf(section, p) == {i \in 1..Len(section) : section[i].project = p}

\* The titles of the tasks of project p that are done and were completed at
\* or after the UTC midnight of the instant the build began at (a title is the
\* task's position in the project).
DoneSinceMidnight(p) ==
    {i \in 1..Len(projects[p].tasks) :
        /\ projects[p].tasks[i].status = "done"
        /\ projects[p].tasks[i].completed_at.tz \in {"naive", "utc"}
        /\ projects[p].tasks[i].completed_at.wall >= (asked_at \div Day) * Day}

NotDone(p) ==
    {i \in 1..Len(projects[p].tasks) : projects[p].tasks[i].status # "done"}

\* C14: for every project of the owner, the completed section contains the
\* project exactly when it has a task with status done and completed_at >= the
\* UTC midnight of now (a naive completed_at read as UTC) and lists exactly
\* those tasks; the pending section contains the project exactly when it has a
\* task whose status is not done, with pending_count the number of such tasks.
C14_CompletedAndPendingPartition ==
    RequestOwner # 0 =>
      \A p \in OwnerProjects(projects, RequestOwner) :
        LET done == ItemsOf(summary.completed_today, p)
            open == ItemsOf(summary.projects_with_pending, p)
        IN /\ Cardinality(done) = (IF DoneSinceMidnight(p) = {} THEN 0 ELSE 1)
           /\ \A i \in done :
                 LET tasks == summary.completed_today[i].tasks
                 IN /\ Len(tasks) = Cardinality(DoneSinceMidnight(p))
                    /\ {tasks[j].title : j \in 1..Len(tasks)} = DoneSinceMidnight(p)
           /\ Cardinality(open) = (IF NotDone(p) = {} THEN 0 ELSE 1)
           /\ \A i \in open :
                 summary.projects_with_pending[i].pending_count
                     = Cardinality(NotDone(p))

\* A digest was built of a project with one task completed a second before
\* midnight and one completed at midnight: only the second is listed.
C14_Witness ==
    /\ RequestOwner = 1
    /\ clock = Noon
    /\ Len(projects[1].tasks) = 2
    /\ projects[1].tasks[1].completed_at = Naive(Today - 1)
    /\ projects[1].tasks[2].completed_at = Naive(Today)
    /\ Len(summary.completed_today) = 1
    /\ Len(summary.completed_today[1].tasks) = 1
    /\ summary.completed_today[1].tasks[1].title = 2

\* The later of the project's update and the latest completion of its tasks,
\* as an instant in seconds.
LatestActivity(p) ==
    LET walls == {projects[p].updated_at.wall} \cup
                 {projects[p].tasks[i].completed_at.wall :
                     i \in {j \in 1..Len(projects[p].tasks) :
                               projects[p].tasks[j].completed_at.tz # "none"}}
    IN CHOOSE w \in walls : \A v \in walls : v <= w

\* The staleness ratio the project has at the current instant.
RatioNow(p) ==
    IF projects[p].periodicity_days = 0 THEN Infinity
    ELSE Quotient((clock - LatestActivity(p)) \div Day, projects[p].periodicity_days)

SameRatio(a, b) == RatioGeq(a, b) /\ RatioGeq(b, a)

\* C15: the attention section contains exactly the owner's projects whose
\* staleness ratio is >= 0.8, ordered by ratio descending, and two projects
\* with equal ratio are ordered by project identifier ascending, whatever
\* order the repository returned the projects in.
C15_AttentionRankedWithTieBreak ==
    RequestOwner # 0 =>
      LET stale == summary.stale_projects
      IN /\ {stale[i].project : i \in 1..Len(stale)}
               = {p \in OwnerProjects(projects, RequestOwner) :
                     RatioGeq(RatioNow(p), Quotient(4, 5))}
         /\ \A i, j \in 1..Len(stale) :
               i < j =>
                 /\ stale[i].project # stale[j].project
                 /\ RatioGeq(stale[i].staleness_ratio, stale[j].staleness_ratio)
                 /\ SameRatio(stale[i].staleness_ratio, stale[j].staleness_ratio)
                       => stale[i].project < stale[j].project

\* C16: for a project with periodicity_days = 0 the staleness ratio is positive
\* infinity wherever it is computed, the project is always in the attention
\* section, and it stands before every project with a finite ratio.
C16_ZeroPeriodIsInfinitelyStale ==
    /\ \A i \in 1..Len(staleness_rows) :
          projects[staleness_rows[i].project].periodicity_days = 0
              => staleness_rows[i].staleness_ratio = Infinity
    /\ RequestOwner # 0 =>
         LET stale == summary.stale_projects
         IN \A p \in OwnerProjects(projects, RequestOwner) :
               projects[p].periodicity_days = 0 =>
                 /\ \E i \in 1..Len(stale) :
                       stale[i].project = p /\ stale[i].staleness_ratio = Infinity
                 /\ \A i, j \in 1..Len(stale) :
                       (stale[i].project = p /\ ~stale[j].staleness_ratio.inf)
                           => i < j

\* The query returned a project with a finite ratio >= 0.8 before a project
\* with a period of zero days, and the digest ranks the second one first.
C16_Witness ==
    /\ RequestOwner = 1
    /\ Len(staleness_rows) = 2
    /\ staleness_rows[1].project = 1
    /\ projects[1].periodicity_days = 7
    /\ projects[2].periodicity_days = 0
    /\ Len(summary.stale_projects) = 2
    /\ summary.stale_projects[1].project = 2
    /\ summary.stale_projects[2].project = 1

\* C17: for every project with periodicity_days > 0 and a last activity not
\* later than now, the staleness ratio is the whole number of elapsed 24-hour
\* days between the last activity and now divided by periodicity_days, and
\* for a fixed periodicity_days it does not decrease as now advances.
C17_RatioIsWholeDaysOverPeriod ==
    /\ [](\A i \in 1..Len(staleness_rows) :
            LET row == staleness_rows[i]
                period == projects[row.project].periodicity_days
            IN (period > 0 /\ row.last_activity.wall <= clock) =>
                  /\ ~row.staleness_ratio.inf
                  /\ row.staleness_ratio.den = period
                  /\ row.staleness_ratio.num * 86400
                        <= clock - row.last_activity.wall
                  /\ (row.staleness_ratio.num + 1) * 86400
                        > clock - row.last_activity.wall)
    /\ [][\A p \in ProjectIds :
            (projects[p] # NoProject /\ projects[p].periodicity_days > 0) =>
                RatioGeq(get_staleness_ratio(projects[p], NoneTime, AwareUtc(clock')),
                         get_staleness_ratio(projects[p], NoneTime, AwareUtc(clock)))]_vars

\* A project with a period of 7 days whose last activity was 7 days before
\* the first noon is found 8 whole days stale a day later.
C17_Witness ==
    /\ clock = Noon + 2 * HalfDay
    /\ Len(staleness_rows) >= 1
    /\ staleness_rows[1].last_activity = Naive(Noon - 7 * Day)
    /\ staleness_rows[1].staleness_ratio = Quotient(8, 7)

\* C18: the last activity a staleness ratio is computed from is never earlier
\* than the project's updated_at and is the later of updated_at and the latest
\* completed_at of the project's tasks, in the digest and on the projects
\* page alike.
C18_LastActivityIsLatest ==
    \A i \in 1..Len(staleness_rows) :
        /\ staleness_rows[i].last_activity.wall
              >= projects[staleness_rows[i].project].updated_at.wall
        /\ staleness_rows[i].last_activity.wall
              = LatestActivity(staleness_rows[i].project)

\* C19: building a digest issues a number of repository reads that does not
\* depend on the number of the owner's projects: the owner, then the projects
\* with their tasks in one batched read, and no read per project.
C19_ReadsIndependentOfProjectCount ==
    RequestOwner # 0 => reads = 2

\* C20: a rendered summary lists at most 5 task titles for each project of the
\* completed section; a project with k > 5 tasks completed today gets exactly
\* the first 5 followed by one line reporting k - 5 more, a project with
\* k <= 5 gets all k and no such line.
C20_CompletedListingTruncated ==
    (request.op = "summary" /\ RequestOwner # 0) =>
      \A i \in 1..Len(summary.completed_today) :
        LET item == summary.completed_today[i]
            k == Len(item.tasks)
            n == IF k > 5 THEN 5 ELSE k
            at == {q \in 1..Len(message) :
                      /\ message[q].kind = "completed_project"
                      /\ message[q].a = item.project}
        IN /\ Cardinality(at) = 1
           /\ \A q \in at :
                 /\ message[q].b = k
                 /\ \A j \in 1..n :
                       message[q + j] = Line("task", item.tasks[j].title, 0)
                 /\ IF k > 5
                    THEN /\ message[q + n + 1] = Line("more", k - 5, 0)
                         /\ message[q + n + 2].kind \notin {"task", "more"}
                    ELSE message[q + n + 1].kind \notin {"task", "more"}

\* The summary of a project with 7 tasks completed today was rendered: 5
\* titles and a line reporting 2 more.
C20_Witness ==
    /\ request.op = "summary"
    /\ RequestOwner = 1
    /\ Len(summary.completed_today) = 1
    /\ Len(summary.completed_today[1].tasks) = 7
    /\ \E q \in 1..Len(message) : message[q] = Line("more", 2, 0)
    /\ Cardinality({q \in 1..Len(message) : message[q].kind = "task"}) = 5

\* The lines of the given kind in the text of the latest request.
LinesOfKind(kind) == {i \in 1..Len(message) : message[i].kind = kind}

\* The total line of the given kind is in the reminder text exactly when its
\* section has entries, once, and carries the count n.
ReportsCount(kind, section, n) ==
    /\ Cardinality(LinesOfKind(kind)) = (IF section = <<>> THEN 0 ELSE 1)
    /\ \A i \in LinesOfKind(kind) : message[i].a = n

\* C21: the reminder text is the single nudge message exactly when the
\* digest's completed, pending and attention sections are all empty, and
\* otherwise a message that reports the counts of the non-empty sections (and
\* of no empty one); for every digest, the empty one included, the reminder
\* text and the /summary text are non-empty.
C21_ReminderIsNudgeOrCounts ==
    RequestOwner # 0 =>
      /\ message # <<>>
      /\ request.op = "reminder" =>
            /\ message = <<Line("nudge", 0, 0)>>
                  <=> /\ summary.completed_today = <<>>
                      /\ summary.projects_with_pending = <<>>
                      /\ summary.stale_projects = <<>>
            /\ message # <<Line("nudge", 0, 0)>> =>
                  /\ LinesOfKind("nudge") = {}
                  /\ ReportsCount("completed_total", summary.completed_today,
                                  TotalCompleted(summary))
                  /\ ReportsCount("attention_total", summary.stale_projects,
                                  Len(summary.stale_projects))
                  /\ ReportsCount("pending_total", summary.projects_with_pending,
                                  TotalPending(summary))

\* A reminder text was made of a digest whose completed section is empty
\* while the owner has open tasks: the text reports the pending count only.
C21_Witness ==
    /\ request.op = "reminder"
    /\ RequestOwner = 1
    /\ summary.completed_today = <<>>
    /\ summary.stale_projects = <<>>
    /\ summary.projects_with_pending # <<>>
    /\ LinesOfKind("pending_total") # {}
    /\ LinesOfKind("completed_total") = {}

\* C25: a digest is a function of the stored data and one instant now: the
\* UTC-midnight boundary of the completed section, the instant of every
\* staleness ratio and the generation timestamp derive from the same now, so
\* the digest is the one a build with that single now gives, also when the
\* build runs across a UTC midnight.
C25_DigestOfOneInstant ==
    (RequestOwner # 0 /\ OwnerProjects(projects, RequestOwner) # {}) =>
        \E now \in {asked_at, summary.summary_date} :
           \E order \in QueryOrders(OwnerProjects(projects, RequestOwner)) :
              summary = get_daily_summary(projects, RequestOwner, order, now, now)

\* C24: every wait of the scheduler loop between two ticks, the normal wait
\* after a tick and the wait after a failed tick, is ended by the stop signal:
\* a loop that is waiting while stop is requested leaves the wait before any
\* time passes, without waiting out the rest of the interval.
C24_EveryWaitEndedByStop ==
    [][\A t \in Threads :
          (stop_reminders /\ pc[t] \in {"wait", "backoff"}) => clock' = clock]_vars

\* C30: the stop signal is never cleared once set: after stop() has been
\* called, the signal stays set, and every reminder thread that start_polling
\* starts later (a thread numbered after the one stop() found) leaves the loop
\* at its guard without executing a tick, so it enumerates nothing and sends
\* no reminder.
C30_RestartedThreadNeverTicks ==
    stop_pc # "idle" =>
        /\ stop_reminders
        /\ \A t \in Threads :
              t > join_target =>
                 /\ pc[t] \in {"unborn", "guard", "done"}
                 /\ utc_now[t] = Never
                 /\ users_for_reminder[t] = <<>>
                 /\ sends[t] = NoneSent

\* stop() joined the first reminder thread; after a polling error
\* start_polling started a second one, which has ended without a tick.
C30_Witness ==
    /\ stop_pc = "returned"
    /\ join_target = 1
    /\ pc[2] = "done"
    /\ main_pc = "polling"

\* C28: all owners examined in one tick are matched against one and the same
\* UTC instant, utc_now, read once before the first owner is examined: it is
\* already read while the loop over the owners is under way, and every owner
\* is in the delivery list exactly when reminders are enabled and the local
\* time of utc_now is the owner's target, whatever time the loop has spent on
\* the owners before (creating their settings included).
C28_OneInstantForAllOwners ==
    \A t \in Threads :
        /\ pc[t] = "scan" => (utc_now[t] # Never /\ utc_now[t] <= clock)
        /\ Enumerated(t) =>
              /\ utc_now[t] <= clock
              /\ \A o \in Owners :
                    InDeliverySet(t, o) <=>
                        /\ snap[t][o].reminders_enabled
                        /\ MatchesNow(snap[t][o], utc_now[t])

\* utc_now was read in the minute before the target minute of the second
\* owner; creating the settings of the first owner took the loop into that
\* minute, and the second owner is not in the delivery list.
C28_Witness ==
    \E t \in Threads :
        /\ pc[t] = "wait_call"
        /\ Enumerated(t)
        /\ MinuteOf(utc_now[t]) < MinuteOf(clock)
        /\ snap[t][1] = DefaultSettings
        /\ snap[t][2].reminders_enabled
        /\ MatchesNow(snap[t][2], clock)
        /\ ~InDeliverySet(t, 2)

\* The registered owner the latest settings command came from; 0 otherwise.
CommandOwner ==
    IF request.op \in {"settings", "remind"} THEN UserByTelegramId(request.who)
    ELSE 0

\* The step is a /remind command.
RemindStep == request = NoRequest /\ request'.op = "remind"

\* C22: settings are created lazily and are never absent after first touch:
\* after a tick's enumeration of the owners has completed every owner has a
\* settings record, and after a /settings command of a registered owner that
\* owner has one (the table holds at most one record per owner); a record
\* created this way has reminders_enabled = TRUE, reminder_time = "20:00" and
\* timezone = "UTC", and get-or-create never changes a record that exists.
C22_SettingsCreatedLazilyOnce ==
    /\ [](/\ \A t \in Threads :
               Enumerated(t) => \A o \in Owners : settings[o] # NoSettings
          /\ (request.op = "settings" /\ CommandOwner # 0) =>
                 /\ settings[CommandOwner] # NoSettings
                 /\ message = <<Line("settings_text", settings[CommandOwner], 0)>>)
    /\ [][~RemindStep =>
            \A o \in Owners :
               IF settings[o] = NoSettings
               THEN settings'[o] \in {NoSettings, DefaultSettings}
               ELSE settings'[o] = settings[o]]_vars

\* The second owner looks at settings that are not the defaults after a tick
\* has enumerated the owners and created the settings of the first one.
C22_Witness ==
    /\ request = [op |-> "settings", who |-> TelegramId(2)]
    /\ settings[2] = MkSettings(FALSE, S_2001, "Europe/Moscow")
    /\ settings[1] = DefaultSettings
    /\ \E t \in Threads : Enumerated(t) /\ snap[t][1] = DefaultSettings

C29_DeliverySetFixedAtEnumeration ==
    /\ [](\A t \in Threads :
             (Enumerated(t) /\ pc[t] = "wait_call") =>
                \A o \in Owners :
                   outcome[t][o] # "none" <=>
                       /\ snap[t][o].reminders_enabled
                       /\ MatchesNow(snap[t][o], utc_now[t]))
    /\ [][\A t \in Threads :
            /\ (pc[t] = "query" /\ pc'[t] = "scan") => snap'[t] = settings
            /\ (pc[t] = "scan" /\ pc'[t] # "scan") =>
                  \A o \in Owners :
                     snap[t][o] # NoSettings => snap'[t][o] = snap[t][o]
            /\ (pc[t] = "send" /\ Enumerated(t)) =>
                  /\ users_for_reminder'[t] = users_for_reminder[t]
                  /\ snap'[t] = snap[t]]_vars

\* The second owner turned the reminders off after the enumeration of a tick
\* and the tick has still sent the reminder.
C29_Witness ==
    \E t \in Threads :
        /\ pc[t] = "wait_call"
        /\ snap[t][2].reminders_enabled
        /\ ~settings[2].reminders_enabled
        /\ outcome[t][2] = "delivered"
        /\ sends[t][2] = 1

\* C29, the next tick: the second owner moved the target to 20:01 after the
\* 20:00 tick, and the tick of 20:01 has sent the reminder.
C29_NextTickWitness ==
    \E t \in Threads :
        /\ pc[t] = "wait_call"
        /\ prev_now[t] # Never
        /\ snap[t][2].reminder_time = S_2001
        /\ outcome[t][2] = "delivered"

\* The tasks of the project table, as (project, position) pairs.
AllTasks ==
    {pt \in ProjectIds \X (1..MaxTasks) :
        /\ projects[pt[1]] # NoProject
        /\ pt[2] <= Len(projects[pt[1]].tasks)}

\* The step is a status toggle that answered with success, of the task at
\* position i of project p.
ToggledStep(p, i) ==
    /\ request = NoRequest
    /\ request'.op = "toggle_task_status"
    /\ message' = <<Line("task_toggled", p, i)>>

\* C26: after any sequence of task creations and status toggles every task
\* has completed_at set if and only if its status is done; a toggle of a task
\* that is not done (todo or in_progress) sets status done and completed_at
\* to the current UTC time, a toggle of a done task sets status todo and
\* clears completed_at, no other task changes, and a toggle that fails leaves
\* every task unchanged.
C26_CompletedAtIffDone ==
    /\ [](\A pt \in AllTasks :
             LET task == projects[pt[1]].tasks[pt[2]]
             IN task.completed_at # NoneTime <=> task.status = "done")
    /\ [][/\ \A pt \in AllTasks :
               LET task == projects[pt[1]].tasks[pt[2]]
                   task_ == projects'[pt[1]].tasks[pt[2]]
               IN IF ToggledStep(pt[1], pt[2])
                  THEN IF task.status = "done"
                       THEN task_ = [task EXCEPT !.status = "todo",
                                                 !.completed_at = NoneTime]
                       ELSE task_ = [task EXCEPT !.status = "done",
                                                 !.completed_at = AwareUtc(clock)]
                  ELSE task_ = task
          /\ (request'.op = "toggle_task_status" /\ message'[1].kind = "error")
                => projects' = projects]_vars

\* The second task, started but not done, was completed by a toggle half a
\* day after the first request, and a later toggle has failed.
C26_Witness ==
    /\ request.op = "toggle_task_status"
    /\ message = <<Line("error", 500, 0)>>
    /\ clock > Noon
    /\ Len(projects[1].tasks) = 2
    /\ projects[1].tasks[1].status = "todo"
    /\ projects[1].tasks[2] = MkTask(2, "done", AwareUtc(Noon + HalfDay), 1)

\* C27: a task created through create_task is appended at the end of the
\* project's open tasks: its order is strictly greater than the order of
\* every task of the project that was there and is not done, whatever the
\* existing orders are, the case where the highest of them is 0 included.
C27_CreatedTaskOrderedLast ==
    [][\A p \in ProjectIds :
          (/\ request = NoRequest
           /\ request'.op = "create_task"
           /\ message'[1].kind = "task_created"
           /\ message'[1].a = p) =>
              LET tasks == projects[p].tasks
                  task == projects'[p].tasks[Len(tasks) + 1]
              IN \A i \in 1..Len(tasks) :
                    tasks[i].status # "done" => task.order > tasks[i].order]_vars
====
